---- MODULE Spec2Model ----
(***************************************************************************)
(* thin-cross-db-client: the statement splitter of src/main.go             *)
(* (splitSQLStatements) as a state machine over the bytes of the script.    *)
(*                                                                         *)
(* A Go string is a sequence of bytes.  The scanner reads it through a      *)
(* bufio.Reader: ReadRune decodes one UTF-8 rune and advances, Peek(n)      *)
(* returns the next n BYTES without advancing, strings.Builder.WriteRune    *)
(* appends the UTF-8 encoding of a rune.  Bytes and runes are integers.     *)
(***************************************************************************)
EXTENDS Integers, Sequences, FiniteSets, TLC

(***************************************************************************)
(* Characters the scanner compares against.                                *)
(***************************************************************************)
NUL == 0
TAB == 9
NEWLINE == 10
SPACE == 32
DQUOTE == 34
DOLLAR == 36
SQUOTE == 39
STAR == 42
DASH == 45
SLASH == 47
SEMI == 59
PeekWindow == 64

(***************************************************************************)
(* Bounds of the model.                                                    *)
(***************************************************************************)
MaxTokens == 5

Min(a, b) == IF a < b THEN a ELSE b

(***************************************************************************)
(* UTF-8, as unicode/utf8 does it.                                          *)
(***************************************************************************)
IsCont(b) == b >= 128 /\ b <= 191

\* utf8.DecodeRune at the 1-based index i of bs (i <= Len(bs)): the rune and
\* its width; an invalid or truncated encoding is (U+FFFD, 1).  The first
\* byte gives the width and the range the second byte must lie in (E0 and F0
\* exclude the overlong forms, ED the surrogates, F4 what lies past U+10FFFF).
DecodeRune(bs, i) ==
    LET b0 == bs[i]
        n  == Len(bs)
        width == IF b0 < 128 THEN 1
                 ELSE IF b0 >= 194 /\ b0 <= 223 THEN 2
                 ELSE IF b0 >= 224 /\ b0 <= 239 THEN 3
                 ELSE IF b0 >= 240 /\ b0 <= 244 THEN 4
                 ELSE 0
        lo == IF b0 = 224 THEN 160 ELSE IF b0 = 240 THEN 144 ELSE 128
        hi == IF b0 = 237 THEN 159 ELSE IF b0 = 244 THEN 143 ELSE 191
    IN  IF width = 1 THEN [r |-> b0, size |-> 1]
        ELSE IF \/ width = 0
                \/ i + width - 1 > n
                \/ bs[i + 1] < lo \/ bs[i + 1] > hi
                \/ (width >= 3 /\ ~IsCont(bs[i + 2]))
                \/ (width = 4 /\ ~IsCont(bs[i + 3]))
             THEN [r |-> 65533, size |-> 1]
        ELSE IF width = 2
             THEN [r |-> (b0 - 192) * 64 + (bs[i + 1] - 128), size |-> 2]
        ELSE IF width = 3
             THEN [r |-> (b0 - 224) * 4096 + (bs[i + 1] - 128) * 64 + (bs[i + 2] - 128),
                   size |-> 3]
        ELSE [r |-> (b0 - 240) * 262144 + (bs[i + 1] - 128) * 4096
                    + (bs[i + 2] - 128) * 64 + (bs[i + 3] - 128),
              size |-> 4]

\* utf8.AppendRune: the bytes of rune r; a surrogate or a value that is no
\* code point is written as U+FFFD.
EncodeRune(r) ==
    IF r >= 0 /\ r < 128 THEN <<r>>
    ELSE IF r >= 128 /\ r < 2048 THEN <<192 + (r \div 64), 128 + (r % 64)>>
    ELSE IF r < 0 \/ r > 1114111 \/ (r >= 55296 /\ r <= 57343) THEN <<239, 191, 189>>
    ELSE IF r < 65536
         THEN <<224 + (r \div 4096), 128 + ((r \div 64) % 64), 128 + (r % 64)>>
    ELSE <<240 + (r \div 262144), 128 + ((r \div 4096) % 64),
           128 + ((r \div 64) % 64), 128 + (r % 64)>>

\* strings.Builder.WriteRune
WriteRune(sb, r) == sb \o EncodeRune(r)

\* unicode.IsSpace: the Latin-1 spaces and the White_Space code points above.
IsSpace(r) ==
    IF r < 256
    THEN (r >= 9 /\ r <= 13) \/ r = 32 \/ r = 133 \/ r = 160
    ELSE \/ r = 5760
         \/ (r >= 8192 /\ r <= 8202)
         \/ r = 8232 \/ r = 8233 \/ r = 8239 \/ r = 8287 \/ r = 12288

\* utf8.DecodeLastRune of a non-empty bs: an ASCII last byte is the rune;
\* otherwise the rune is decoded from the nearest byte, at most three before
\* the last, that is no continuation byte, and it must end where bs ends.
LastRune(bs) ==
    LET n == Len(bs)
        starts == {k \in (n - 3)..(n - 1) : k >= 1 /\ ~IsCont(bs[k])}
        start == CHOOSE k \in starts : \A j \in starts : j <= k
    IN  IF bs[n] < 128 THEN [r |-> bs[n], size |-> 1]
        ELSE IF IsCont(bs[n]) /\ starts # {} /\ start + DecodeRune(bs, start).size - 1 = n
             THEN DecodeRune(bs, start)
        ELSE [r |-> 65533, size |-> 1]

RECURSIVE TrimLeft(_)
TrimLeft(bs) ==
    IF bs = <<>> THEN <<>>
    ELSE LET d == DecodeRune(bs, 1)
         IN  IF IsSpace(d.r) THEN TrimLeft(SubSeq(bs, d.size + 1, Len(bs))) ELSE bs

RECURSIVE TrimRight(_)
TrimRight(bs) ==
    IF bs = <<>> THEN <<>>
    ELSE LET d == LastRune(bs)
         IN  IF IsSpace(d.r) THEN TrimRight(SubSeq(bs, 1, Len(bs) - d.size)) ELSE bs

\* strings.TrimSpace
TrimSpace(bs) == TrimRight(TrimLeft(bs))

\* strings.HasPrefix
HasPrefix(bs, prefix) ==
    Len(bs) >= Len(prefix) /\ SubSeq(bs, 1, Len(prefix)) = prefix

(***************************************************************************)
(* The character source: bufio.NewReader(strings.NewReader(input)), with p  *)
(* the number of bytes consumed so far.                                     *)
(***************************************************************************)
\* reader.ReadRune(): at the end of the input it returns (0, 0, err).
ReadRune(in, p) ==
    IF p >= Len(in) THEN [r |-> NUL, size |-> 0, err |-> TRUE]
    ELSE LET d == DecodeRune(in, p + 1)
         IN  [r |-> d.r, size |-> d.size, err |-> FALSE]

\* reader.Peek(n): the next n bytes, fewer when the input ends; nothing consumed.
Peek(in, p, n) == IF n <= 0 THEN <<>> ELSE SubSeq(in, p + 1, Min(p + n, Len(in)))

\* The loops `for i := 0; i < n; i++ { r, _, _ := reader.ReadRune(); sb.WriteRune(r) }`:
\* n runes are read whatever ReadRune reports, and each result is written.
\* The n turns are taken as the first n \div 2 turns and then the others.
RECURSIVE ReadRunes(_, _, _)
ReadRunes(in, p, n) ==
    IF n <= 0 THEN [out |-> <<>>, pos |-> p]
    ELSE IF n = 1
    THEN LET rd == ReadRune(in, p)
         IN  [out |-> EncodeRune(rd.r), pos |-> p + rd.size]
    ELSE LET first == ReadRunes(in, p, n \div 2)
             rest  == ReadRunes(in, first.pos, n - n \div 2)
         IN  [out |-> first.out \o rest.out, pos |-> rest.pos]

\* `r, _, err := reader.ReadRune(); if err == nil { sb.WriteRune(r) }`
ReadRuneChecked(in, p) ==
    LET rd == ReadRune(in, p)
    IN  [out |-> IF rd.err THEN <<>> ELSE EncodeRune(rd.r), pos |-> p + rd.size]

(***************************************************************************)
(* The scanner's locals (lines 275-280) as a record, and one operator per   *)
(* branch of the loop body.  Each takes the script and the locals at the    *)
(* top of an iteration whose ReadRune succeeded, and gives the locals at    *)
(* the `continue`.                                                          *)
(***************************************************************************)
InitLocals ==
    [pos            |-> 0,
     sb             |-> <<>>,
     statements     |-> <<>>,
     inSingle       |-> FALSE,
     inDouble       |-> FALSE,
     inLineComment  |-> FALSE,
     inBlockComment |-> FALSE,
     dollarTag      |-> <<>>]

\* ch of line 283 and the reader offset after it.
Ch(in, st) == ReadRune(in, st.pos).r
AfterCh(in, st) == st.pos + ReadRune(in, st.pos).size

\* next(n) of lines 288-294, called after ch was read.
NextN(in, st, n) == Peek(in, AfterCh(in, st), n)

\* A variant of LineCommentBody in which a ' inside the comment opens a
\* literal.
LineCommentBodyOpeningQuote(in, st) ==
    [st EXCEPT !.pos = AfterCh(in, st),
               !.sb = WriteRune(st.sb, Ch(in, st)),
               !.inLineComment = (Ch(in, st) # NEWLINE),
               !.inSingle = (Ch(in, st) = SQUOTE)]

\* Lines 296-302.
LineCommentBody(in, st) ==
    [st EXCEPT !.pos = AfterCh(in, st),
               !.sb = WriteRune(st.sb, Ch(in, st)),
               !.inLineComment = (Ch(in, st) # NEWLINE)]

\* Lines 304-313.
BlockCommentBody(in, st) ==
    LET ch == Ch(in, st)
        p1 == AfterCh(in, st)
        sb1 == WriteRune(st.sb, ch)
    IN  IF ch = STAR /\ HasPrefix(NextN(in, st, 1), <<SLASH>>)
        THEN LET rd == ReadRune(in, p1)
             IN  [st EXCEPT !.pos = p1 + rd.size,
                            !.sb = IF rd.err THEN sb1 ELSE WriteRune(sb1, SLASH),
                            !.inBlockComment = FALSE]
        ELSE [st EXCEPT !.pos = p1, !.sb = sb1]

\* A variant of DollarBody that closes the body on any `$`.
DollarBodyClosingOnAnyDollar(in, st) ==
    LET ch == Ch(in, st)
    IN  [st EXCEPT !.pos = AfterCh(in, st),
                   !.sb = WriteRune(st.sb, ch),
                   !.dollarTag = IF ch = DOLLAR THEN <<>> ELSE st.dollarTag]

\* A variant of DollarBody in which the Peek of line 318 consumes what it
\* returns.
DollarBodyConsumingPeek(in, st) ==
    LET ch == Ch(in, st)
        p1 == AfterCh(in, st)
        sb1 == WriteRune(st.sb, ch)
        n == Len(st.dollarTag) - 1
    IN  IF ch = DOLLAR /\ Peek(in, p1, n) = Tail(st.dollarTag)
        THEN LET rr == ReadRunes(in, p1, n)
             IN  [st EXCEPT !.pos = rr.pos, !.sb = sb1 \o rr.out, !.dollarTag = <<>>]
        ELSE [st EXCEPT !.pos = IF ch = DOLLAR THEN Min(p1 + n, Len(in)) ELSE p1,
                        !.sb = sb1]

\* Lines 315-328.
DollarBody(in, st) ==
    LET ch == Ch(in, st)
        p1 == AfterCh(in, st)
        sb1 == WriteRune(st.sb, ch)
        n == Len(st.dollarTag) - 1
    IN  IF ch = DOLLAR /\ Peek(in, p1, n) = Tail(st.dollarTag)
        THEN LET rr == ReadRunes(in, p1, n)
             IN  [st EXCEPT !.pos = rr.pos, !.sb = sb1 \o rr.out, !.dollarTag = <<>>]
        ELSE [st EXCEPT !.pos = p1, !.sb = sb1]

\* The condition of line 332.
LineCommentMarker(ch, nextTwo) ==
    ch = DASH /\ (nextTwo = <<DASH, SPACE>> \/ nextTwo = <<DASH, DASH>>)

\* Lines 332-340.
OpenLineCommentBody(in, st) ==
    LET rc == ReadRuneChecked(in, AfterCh(in, st))
    IN  [st EXCEPT !.pos = rc.pos,
                   !.sb = WriteRune(st.sb, Ch(in, st)) \o rc.out,
                   !.inLineComment = TRUE]

\* The condition of line 341.
BlockCommentMarker(ch, nextOne) == ch = SLASH /\ HasPrefix(nextOne, <<STAR>>)

\* A variant of OpenBlockCommentBody that leaves the `*` of the marker to the
\* next iteration.
OpenBlockCommentKeepingStar(in, st) ==
    [st EXCEPT !.pos = AfterCh(in, st),
               !.sb = WriteRune(st.sb, Ch(in, st)),
               !.inBlockComment = TRUE]

\* Lines 341-349.
OpenBlockCommentBody(in, st) ==
    LET rc == ReadRuneChecked(in, AfterCh(in, st))
    IN  [st EXCEPT !.pos = rc.pos,
                   !.sb = WriteRune(st.sb, Ch(in, st)) \o rc.out,
                   !.inBlockComment = TRUE]

\* `for _, r := range peek` (line 353) decodes a rune at index i of peek: i is
\* not a byte that a rune decoded one, two or three bytes earlier extends
\* over.
RuneStart(peek, i) ==
    \/ ~IsCont(peek[i])
    \/ \A j \in {i - 3, i - 2, i - 1} : j >= 1 => DecodeRune(peek, j).size <= i - j

\* The index in peek of the rune at which the loop of lines 353-368 breaks:
\* the first `$`, space, newline or tab (each of them one byte that no other
\* rune holds); 0 when the loop runs to the end of peek.
BreakIndex(peek) ==
    LET stops == {i \in 1..Len(peek) : peek[i] \in {DOLLAR, SPACE, NEWLINE, TAB}}
    IN  IF stops = {} THEN 0 ELSE CHOOSE i \in stops : \A k \in stops : i <= k

\* Lines 351-368: the value dollarTag has at line 369.  When the loop breaks
\* at a `$` the tag is `$` and string(r) of every rune of peek up to it, and
\* <<>> when a space, newline or tab comes first or peek ends.
DetectTag(in, st) ==
    LET peek == NextN(in, st, PeekWindow)
        stop == BreakIndex(peek)
        runes == Cardinality({i \in 1..stop : RuneStart(peek, i)})
    IN  IF stop = 0 \/ peek[stop] # DOLLAR THEN <<>>
        ELSE <<DOLLAR>> \o ReadRunes(peek, 0, runes).out

\* Lines 356-362 and 369-371, for a tag that was found.
OpenDollarBody(in, st) ==
    LET tag == DetectTag(in, st)
        rr == ReadRunes(in, AfterCh(in, st), Len(tag) - 1)
    IN  [st EXCEPT !.pos = rr.pos,
                   !.sb = WriteRune(st.sb, Ch(in, st)) \o rr.out,
                   !.dollarTag = tag]

\* A variant of ToggleSingle in which a quote that follows a backslash does not
\* close (or open) the literal.
ToggleSingleEscaped(ch, st) ==
    IF ch = SQUOTE /\ ~st.inDouble
          /\ ~(st.sb # <<>> /\ st.sb[Len(st.sb)] = 92)
    THEN ~st.inSingle
    ELSE st.inSingle

\* A variant of ToggleDouble without the !inSingle test of line 377.
ToggleDoubleInsideSingle(ch, st) ==
    IF ch = DQUOTE THEN ~st.inDouble ELSE st.inDouble

\* Lines 375-379: the quote flags after ch.
ToggleSingle(ch, st) == IF ch = SQUOTE /\ ~st.inDouble THEN ~st.inSingle ELSE st.inSingle
ToggleDouble(ch, st) ==
    IF ch = SQUOTE /\ ~st.inDouble THEN st.inDouble
    ELSE IF ch = DQUOTE /\ ~st.inSingle THEN ~st.inDouble
    ELSE st.inDouble

\* A variant of IsBoundary that forgets the double-quote flag.
IsBoundaryIgnoringDouble(ch, st) ==
    /\ ch = SEMI
    /\ ~ToggleSingle(ch, st)
    /\ st.dollarTag = <<>>
    /\ ~st.inLineComment /\ ~st.inBlockComment

\* The condition of line 381, on the flags as lines 375-379 left them.
IsBoundary(ch, st) ==
    /\ ch = SEMI
    /\ ~ToggleSingle(ch, st) /\ ~ToggleDouble(ch, st)
    /\ st.dollarTag = <<>>
    /\ ~st.inLineComment /\ ~st.inBlockComment

\* A variant of Flush that appends the trimmed buffer even when it is empty.
FlushAlways(statements, sb) == Append(statements, TrimSpace(sb))

\* A variant of Flush that puts the trimmed buffer in front of the output.
FlushInFront(statements, sb) ==
    IF TrimSpace(sb) # <<>> THEN <<TrimSpace(sb)>> \o statements ELSE statements

\* Lines 382-386, and 392-394: the output after the buffer is flushed into it.
Flush(statements, sb) ==
    IF TrimSpace(sb) # <<>> THEN Append(statements, TrimSpace(sb)) ELSE statements

\* A variant of BoundaryBody without the sb.Reset() of line 386.
BoundaryBodyWithoutReset(in, st) ==
    [st EXCEPT !.pos = AfterCh(in, st),
               !.statements = Flush(st.statements, st.sb)]

\* Lines 381-388.
BoundaryBody(in, st) ==
    [st EXCEPT !.pos = AfterCh(in, st),
               !.statements = Flush(st.statements, st.sb),
               !.sb = <<>>]

\* Lines 375-380 and 389.
AppendBody(in, st) ==
    LET ch == Ch(in, st)
    IN  [st EXCEPT !.pos = AfterCh(in, st),
                   !.inSingle = ToggleSingle(ch, st),
                   !.inDouble = ToggleDouble(ch, st),
                   !.sb = WriteRune(st.sb, ch)]

\* Which branch of the loop body an iteration takes (lines 296-389, in order).
Branch(in, st) ==
    LET ch == Ch(in, st)
    IN  IF st.inLineComment THEN "lineComment"
        ELSE IF st.inBlockComment THEN "blockComment"
        ELSE IF st.dollarTag # <<>> THEN "dollarBody"
        ELSE IF ~st.inSingle /\ ~st.inDouble /\ LineCommentMarker(ch, NextN(in, st, 2))
             THEN "openLineComment"
        ELSE IF ~st.inSingle /\ ~st.inDouble /\ BlockCommentMarker(ch, NextN(in, st, 1))
             THEN "openBlockComment"
        ELSE IF ~st.inSingle /\ ~st.inDouble /\ ch = DOLLAR /\ DetectTag(in, st) # <<>>
             THEN "openDollar"
        ELSE IF IsBoundary(ch, st) THEN "boundary"
        ELSE "append"

\* One iteration of the loop of lines 282-390 whose ReadRune succeeded.
Iterate(in, st) ==
    CASE Branch(in, st) = "lineComment"      -> LineCommentBody(in, st)
      [] Branch(in, st) = "blockComment"     -> BlockCommentBody(in, st)
      [] Branch(in, st) = "dollarBody"       -> DollarBody(in, st)
      [] Branch(in, st) = "openLineComment"  -> OpenLineCommentBody(in, st)
      [] Branch(in, st) = "openBlockComment" -> OpenBlockCommentBody(in, st)
      [] Branch(in, st) = "openDollar"       -> OpenDollarBody(in, st)
      [] Branch(in, st) = "boundary"         -> BoundaryBody(in, st)
      [] OTHER                               -> AppendBody(in, st)

\* A variant of FinalBody that drops the buffer of an unterminated construct.
FinalBodyDroppingUnterminated(st) ==
    IF st.inSingle \/ st.inDouble \/ st.inLineComment \/ st.inBlockComment
          \/ st.dollarTag # <<>>
    THEN st
    ELSE [st EXCEPT !.statements = Flush(st.statements, st.sb)]

\* A variant of FinalBody that forgets the text after the last `;`.
FinalBodyWithoutFlush(st) == st

\* Lines 392-395: the final flush; the buffer is not reset.
FinalBody(st) == [st EXCEPT !.statements = Flush(st.statements, st.sb)]

\* The whole loop from the locals st, then the final flush.
RECURSIVE Scan(_, _)
Scan(in, st) ==
    IF ReadRune(in, st.pos).err THEN FinalBody(st) ELSE Scan(in, Iterate(in, st))

\* splitSQLStatements(input): the returned slice.
splitSQLStatements(in) == Scan(in, InitLocals).statements

(***************************************************************************)
(* main's pure helpers: config.validate (lines 93-115), defaultPort (lines  *)
(* 117-128) and the classification executeStatement makes (lines 159-164).  *)
(* Strings are byte sequences here as well.                                 *)
(***************************************************************************)
\* unicode.ToLower's table (the simple lower-case mappings of the Unicode
\* character database): <<first, last, stride, delta>> says that the code
\* points first, first + stride, ... up to last are lowered by adding delta.
LowerRanges ==
    { <<65, 90, 1, 32>>, <<192, 214, 1, 32>>, <<216, 222, 1, 32>>,
      <<256, 302, 2, 1>>, <<304, 304, 1, -199>>, <<306, 310, 2, 1>>,
      <<313, 327, 2, 1>>, <<330, 374, 2, 1>>, <<376, 376, 1, -121>>,
      <<377, 381, 2, 1>>, <<385, 385, 1, 210>>, <<386, 388, 2, 1>>,
      <<390, 390, 1, 206>>, <<391, 391, 1, 1>>, <<393, 394, 1, 205>>,
      <<395, 395, 1, 1>>, <<398, 398, 1, 79>>, <<399, 399, 1, 202>>,
      <<400, 400, 1, 203>>, <<401, 401, 1, 1>>, <<403, 403, 1, 205>>,
      <<404, 404, 1, 207>>, <<406, 406, 1, 211>>, <<407, 407, 1, 209>>,
      <<408, 408, 1, 1>>, <<412, 412, 1, 211>>, <<413, 413, 1, 213>>,
      <<415, 415, 1, 214>>, <<416, 420, 2, 1>>, <<422, 422, 1, 218>>,
      <<423, 423, 1, 1>>, <<425, 425, 1, 218>>, <<428, 428, 1, 1>>,
      <<430, 430, 1, 218>>, <<431, 431, 1, 1>>, <<433, 434, 1, 217>>,
      <<435, 437, 2, 1>>, <<439, 439, 1, 219>>, <<440, 440, 1, 1>>,
      <<444, 444, 1, 1>>, <<452, 452, 1, 2>>, <<453, 453, 1, 1>>,
      <<455, 455, 1, 2>>, <<456, 456, 1, 1>>, <<458, 458, 1, 2>>,
      <<459, 475, 2, 1>>, <<478, 494, 2, 1>>, <<497, 497, 1, 2>>,
      <<498, 500, 2, 1>>, <<502, 502, 1, -97>>, <<503, 503, 1, -56>>,
      <<504, 542, 2, 1>>, <<544, 544, 1, -130>>, <<546, 562, 2, 1>>,
      <<570, 570, 1, 10795>>, <<571, 571, 1, 1>>, <<573, 573, 1, -163>>,
      <<574, 574, 1, 10792>>, <<577, 577, 1, 1>>, <<579, 579, 1, -195>>,
      <<580, 580, 1, 69>>, <<581, 581, 1, 71>>, <<582, 590, 2, 1>>,
      <<880, 882, 2, 1>>, <<886, 886, 1, 1>>, <<895, 895, 1, 116>>,
      <<902, 902, 1, 38>>, <<904, 906, 1, 37>>, <<908, 908, 1, 64>>,
      <<910, 911, 1, 63>>, <<913, 929, 1, 32>>, <<931, 939, 1, 32>>,
      <<975, 975, 1, 8>>, <<984, 1006, 2, 1>>, <<1012, 1012, 1, -60>>,
      <<1015, 1015, 1, 1>>, <<1017, 1017, 1, -7>>, <<1018, 1018, 1, 1>>,
      <<1021, 1023, 1, -130>>, <<1024, 1039, 1, 80>>, <<1040, 1071, 1, 32>>,
      <<1120, 1152, 2, 1>>, <<1162, 1214, 2, 1>>, <<1216, 1216, 1, 15>>,
      <<1217, 1229, 2, 1>>, <<1232, 1326, 2, 1>>, <<1329, 1366, 1, 48>>,
      <<4256, 4293, 1, 7264>>, <<4295, 4295, 1, 7264>>,
      <<4301, 4301, 1, 7264>>, <<5024, 5103, 1, 38864>>,
      <<5104, 5109, 1, 8>>, <<7312, 7354, 1, -3008>>,
      <<7357, 7359, 1, -3008>>, <<7680, 7828, 2, 1>>,
      <<7838, 7838, 1, -7615>>, <<7840, 7934, 2, 1>>, <<7944, 7951, 1, -8>>,
      <<7960, 7965, 1, -8>>, <<7976, 7983, 1, -8>>, <<7992, 7999, 1, -8>>,
      <<8008, 8013, 1, -8>>, <<8025, 8031, 2, -8>>, <<8040, 8047, 1, -8>>,
      <<8072, 8079, 1, -8>>, <<8088, 8095, 1, -8>>, <<8104, 8111, 1, -8>>,
      <<8120, 8121, 1, -8>>, <<8122, 8123, 1, -74>>, <<8124, 8124, 1, -9>>,
      <<8136, 8139, 1, -86>>, <<8140, 8140, 1, -9>>, <<8152, 8153, 1, -8>>,
      <<8154, 8155, 1, -100>>, <<8168, 8169, 1, -8>>,
      <<8170, 8171, 1, -112>>, <<8172, 8172, 1, -7>>,
      <<8184, 8185, 1, -128>>, <<8186, 8187, 1, -126>>,
      <<8188, 8188, 1, -9>>, <<8486, 8486, 1, -7517>>,
      <<8490, 8490, 1, -8383>>, <<8491, 8491, 1, -8262>>,
      <<8498, 8498, 1, 28>>, <<8544, 8559, 1, 16>>, <<8579, 8579, 1, 1>>,
      <<9398, 9423, 1, 26>>, <<11264, 11311, 1, 48>>, <<11360, 11360, 1, 1>>,
      <<11362, 11362, 1, -10743>>, <<11363, 11363, 1, -3814>>,
      <<11364, 11364, 1, -10727>>, <<11367, 11371, 2, 1>>,
      <<11373, 11373, 1, -10780>>, <<11374, 11374, 1, -10749>>,
      <<11375, 11375, 1, -10783>>, <<11376, 11376, 1, -10782>>,
      <<11378, 11378, 1, 1>>, <<11381, 11381, 1, 1>>,
      <<11390, 11391, 1, -10815>>, <<11392, 11490, 2, 1>>,
      <<11499, 11501, 2, 1>>, <<11506, 11506, 1, 1>>, <<42560, 42604, 2, 1>>,
      <<42624, 42650, 2, 1>>, <<42786, 42798, 2, 1>>, <<42802, 42862, 2, 1>>,
      <<42873, 42875, 2, 1>>, <<42877, 42877, 1, -35332>>,
      <<42878, 42886, 2, 1>>, <<42891, 42891, 1, 1>>,
      <<42893, 42893, 1, -42280>>, <<42896, 42898, 2, 1>>,
      <<42902, 42920, 2, 1>>, <<42922, 42922, 1, -42308>>,
      <<42923, 42923, 1, -42319>>, <<42924, 42924, 1, -42315>>,
      <<42925, 42925, 1, -42305>>, <<42926, 42926, 1, -42308>>,
      <<42928, 42928, 1, -42258>>, <<42929, 42929, 1, -42282>>,
      <<42930, 42930, 1, -42261>>, <<42931, 42931, 1, 928>>,
      <<42932, 42946, 2, 1>>, <<42948, 42948, 1, -48>>,
      <<42949, 42949, 1, -42307>>, <<42950, 42950, 1, -35384>>,
      <<42951, 42953, 2, 1>>, <<42960, 42960, 1, 1>>, <<42966, 42968, 2, 1>>,
      <<42997, 42997, 1, 1>>, <<65313, 65338, 1, 32>>,
      <<66560, 66599, 1, 40>>, <<66736, 66771, 1, 40>>,
      <<66928, 66938, 1, 39>>, <<66940, 66954, 1, 39>>,
      <<66956, 66962, 1, 39>>, <<66964, 66965, 1, 39>>,
      <<68736, 68786, 1, 64>>, <<71840, 71871, 1, 32>>,
      <<93760, 93791, 1, 32>>, <<125184, 125217, 1, 34>> }

\* unicode.ToLower: a rune the table holds is lowered, any other is kept.
ToLowerRune(r) ==
    LET hits == {t \in LowerRanges : r >= t[1] /\ r <= t[2] /\ (r - t[1]) % t[3] = 0}
    IN  IF hits = {} THEN r ELSE r + (CHOOSE t \in hits : TRUE)[4]

\* strings.ToLower: rune by rune.
RECURSIVE ToLowerFrom(_, _)
ToLowerFrom(bs, i) ==
    IF i > Len(bs) THEN <<>>
    ELSE LET d == DecodeRune(bs, i)
         IN  EncodeRune(ToLowerRune(d.r)) \o ToLowerFrom(bs, i + d.size)

ToLower(bs) == ToLowerFrom(bs, 1)

oracle == <<111, 114, 97, 99, 108, 101>>
sqlserver == <<115, 113, 108, 115, 101, 114, 118, 101, 114>>
postgres == <<112, 111, 115, 116, 103, 114, 101, 115>>
select == <<115, 101, 108, 101, 99, 116>>
with == <<119, 105, 116, 104>>

\* Lines 106-110: the switch on strings.ToLower(c.engine).
SupportedEngine(engine) == ToLower(engine) \in {oracle, sqlserver, postgres}

\* Lines 117-128.
defaultPort(engine) ==
    LET e == ToLower(engine)
    IN  IF e = oracle THEN 1521
        ELSE IF e = sqlserver THEN 1433
        ELSE IF e = postgres THEN 5432
        ELSE 0

\* Lines 93-110 with the dbname test (lines 100-102) left out.
validateWithoutDbname(c) ==
    IF c.engine = <<>> THEN "engine is required"
    ELSE IF c.host = <<>> THEN "host is required"
    ELSE IF c.sqlPath = <<>> THEN "sql path is required"
    ELSE IF ~SupportedEngine(c.engine) THEN "unsupported engine"
    ELSE ""

\* Lines 93-110 of config.validate: the error it returns, "" for nil.
validate(c) ==
    IF c.engine = <<>> THEN "engine is required"
    ELSE IF c.host = <<>> THEN "host is required"
    ELSE IF c.dbname = <<>> THEN "dbname is required"
    ELSE IF c.sqlPath = <<>> THEN "sql path is required"
    ELSE IF ~SupportedEngine(c.engine) THEN "unsupported engine"
    ELSE ""

\* Lines 111-113: a port left at 0 becomes the engine's default.
WithDefaultPort(c) ==
    IF c.port = 0 THEN [c EXCEPT !.port = defaultPort(c.engine)] ELSE c

\* Lines 159-164 of executeStatement: the statement goes to QueryContext.
IsQueryLike(statement) ==
    LET normalized == ToLower(TrimSpace(statement))
    IN  HasPrefix(normalized, select) \/ HasPrefix(normalized, with)

\* One call main makes on the file system or the database, with the statement
\* it carries (0 when none) and whether it came back with an error.
Call(op, stmt, err) == [op |-> op, stmt |-> stmt, err |-> err]

\* Lines 79-85 without the tx.Rollback() of line 81.
AfterStatementWithoutRollback(calls, call) == Append(calls, call)

\* Lines 79-85: the calls made once executeStatement has returned: a failed
\* statement is followed at once by tx.Rollback(), whose result is dropped.
AfterStatement(calls, call) ==
    IF call.err
    THEN calls \o <<call, Call("Rollback", 0, FALSE)>>
    ELSE Append(calls, call)

(***************************************************************************)
(* Scripts.  A script is the concatenation of at most MaxTokens tokens of   *)
(* one vocabulary; a token is a byte sequence.  The vocabularies cover the  *)
(* constructs the scanner knows, alone and mixed:  a is 97, \ is 92 and     *)
(* U+00E9 (e acute) is the two bytes 195 169, U+3000 (the ideographic      *)
(* space) the three bytes 227 128 128 and U+1F600 the four bytes 240 159    *)
(* 152 128.                                                                 *)
(***************************************************************************)
Vocabularies ==
    { {<<SQUOTE>>, <<SEMI>>, <<92>>, <<97>>},
      {<<SQUOTE>>, <<DQUOTE>>, <<SEMI>>, <<SPACE>>},
      {<<DASH>>, <<SPACE>>, <<SEMI>>, <<NEWLINE>>},
      {<<DASH>>, <<97>>, <<SEMI>>, <<NEWLINE>>},
      {<<DASH, DASH, SPACE>>, <<NEWLINE>>, <<SEMI>>, <<SQUOTE>>},
      {<<SLASH>>, <<STAR>>, <<SEMI>>, <<97>>},
      {<<SLASH, STAR>>, <<STAR, SLASH>>, <<SEMI>>, <<SQUOTE>>},
      {<<SLASH, STAR>>, <<STAR, SLASH>>, <<SEMI>>, <<SLASH>>},
      {<<SLASH, STAR>>, <<DASH, DASH, SPACE>>, <<SEMI>>, <<NEWLINE>>},
      {<<DOLLAR>>, <<SEMI>>, <<97>>, <<SPACE>>},
      {<<DOLLAR>>, <<SEMI>>, <<TAB>>, <<NEWLINE>>},
      {<<DOLLAR>>, <<195, 169>>, <<SEMI>>, <<SPACE>>},
      {<<DOLLAR, 195, 169, DOLLAR>>, <<DOLLAR>>, <<SEMI>>, <<97>>},
      {<<DOLLAR, DOLLAR>>, <<SEMI>>, <<SQUOTE>>, <<NEWLINE>>},
      {<<DOLLAR, 97, DOLLAR>>, <<SEMI>>, <<DASH, DASH, SPACE>>, <<SLASH, STAR>>},
      {<<97>>, <<SEMI>>, <<SPACE>>, <<NEWLINE>>},
      {<<DOLLAR, 240, 159, 152, 128, DOLLAR>>, <<240, 159, 152, 128>>,
       <<227, 128, 128>>, <<SEMI>>} }

RECURSIVE Flatten(_)
Flatten(ts) == IF ts = <<>> THEN <<>> ELSE Head(ts) \o Flatten(Tail(ts))

TokenSeqs(V) == UNION { [1..k -> V] : k \in 0..MaxTokens }

\* n copies of bs.
Repeat(bs, n) == <<>> \o [i \in 1..(n * Len(bs)) |-> bs[((i - 1) % Len(bs)) + 1]]

\* Scripts that put a second `$` around the end of the lookahead window: a `$`,
\* a run of a or of U+00E9 whose length in bytes is about PeekWindow, and `$;a`.
WindowFills ==
    { Repeat(<<97>>, n) : n \in (PeekWindow - 2)..(PeekWindow + 1) }
        \cup { Repeat(<<195, 169>>, n) : n \in (PeekWindow \div 2 - 2)..(PeekWindow \div 2 + 1) }
        \cup { <<97>> \o Repeat(<<195, 169>>, n) : n \in (PeekWindow \div 2 - 1)..(PeekWindow \div 2) }

WindowScripts == { <<DOLLAR>> \o fill \o <<DOLLAR, SEMI, 97>> : fill \in WindowFills }

Scripts ==
    UNION { { Flatten(ts) : ts \in TokenSeqs(V) } : V \in Vocabularies } \cup WindowScripts

(***************************************************************************)
(* The state machine: main (lines 30-91) with its call of                   *)
(* splitSQLStatements (line 52) taken one loop iteration at a time.         *)
(***************************************************************************)
VARIABLES
    input,          \* the script, string(sqlBytes)
    readErr,        \* the err ReadRune gives once the source has no more bytes
    pos,            \* bytes the reader has consumed
    sb,             \* the statement buffer
    statements,     \* the output slice
    inSingle, inDouble, inLineComment, inBlockComment,
    dollarTag,      \* the open dollar tag, <<>> when none
    pc,             \* where main is: "validate", "readFile", "scan", "returned",
                    \* "open", "ping", "begin", "exec", then "done" (main
                    \* returned) or "exit" (os.Exit(1))
    stderr,         \* what main wrote to os.Stderr, "" when nothing
    cfg,            \* the config the flags gave
    idx,            \* statements main's loop has got through (lines 79-85)
    calls,          \* the calls made on the file system and the database
    stdout          \* what executeStatement printed

vars == <<input, readErr, pos, sb, statements, inSingle, inDouble,
          inLineComment, inBlockComment, dollarTag, pc, stderr,
          cfg, idx, calls, stdout>>

\* The scanner's locals, as the record the branch operators take.
Locals ==
    [pos            |-> pos,
     sb             |-> sb,
     statements     |-> statements,
     inSingle       |-> inSingle,
     inDouble       |-> inDouble,
     inLineComment  |-> inLineComment,
     inBlockComment |-> inBlockComment,
     dollarTag      |-> dollarTag]

SetLocals(st) ==
    /\ pos' = st.pos
    /\ sb' = st.sb
    /\ statements' = st.statements
    /\ inSingle' = st.inSingle
    /\ inDouble' = st.inDouble
    /\ inLineComment' = st.inLineComment
    /\ inBlockComment' = st.inBlockComment
    /\ dollarTag' = st.dollarTag

\* A config that passed validate, as main holds it from line 46 on.
ValidConfig ==
    [engine |-> postgres, host |-> <<104>>, port |-> 5432, dbname |-> <<100>>,
     sqlPath |-> <<102>>]

\* Lines 46-52 and 275-280: the file was read and the scan begins.
InitScan(script) ==
    /\ input = script
    /\ cfg = ValidConfig
    /\ idx = 0
    /\ calls = <<Call("ReadFile", 0, FALSE)>>
    /\ stdout = <<>>
    /\ pos = InitLocals.pos
    /\ sb = InitLocals.sb
    /\ statements = InitLocals.statements
    /\ inSingle = InitLocals.inSingle
    /\ inDouble = InitLocals.inDouble
    /\ inLineComment = InitLocals.inLineComment
    /\ inBlockComment = InitLocals.inBlockComment
    /\ dollarTag = InitLocals.dollarTag
    /\ pc = "scan"
    /\ stderr = ""

\* strings.NewReader reports nothing but io.EOF.
Init == \E script \in Scripts : InitScan(script) /\ readErr = "EOF"

\* Line 283 gave a rune and the iteration takes branch b.
Takes(b) == pc = "scan" /\ ~ReadRune(input, pos).err /\ Branch(input, Locals) = b

InLineComment ==
    /\ Takes("lineComment")
    /\ SetLocals(LineCommentBody(input, Locals))
    /\ UNCHANGED <<input, readErr, pc, stderr, cfg, idx, calls, stdout>>

InBlockComment ==
    /\ Takes("blockComment")
    /\ SetLocals(BlockCommentBody(input, Locals))
    /\ UNCHANGED <<input, readErr, pc, stderr, cfg, idx, calls, stdout>>

InDollarQuoted ==
    /\ Takes("dollarBody")
    /\ SetLocals(DollarBody(input, Locals))
    /\ UNCHANGED <<input, readErr, pc, stderr, cfg, idx, calls, stdout>>

OpenLineComment ==
    /\ Takes("openLineComment")
    /\ SetLocals(OpenLineCommentBody(input, Locals))
    /\ UNCHANGED <<input, readErr, pc, stderr, cfg, idx, calls, stdout>>

OpenBlockComment ==
    /\ Takes("openBlockComment")
    /\ SetLocals(OpenBlockCommentBody(input, Locals))
    /\ UNCHANGED <<input, readErr, pc, stderr, cfg, idx, calls, stdout>>

OpenDollarQuoted ==
    /\ Takes("openDollar")
    /\ SetLocals(OpenDollarBody(input, Locals))
    /\ UNCHANGED <<input, readErr, pc, stderr, cfg, idx, calls, stdout>>

Boundary ==
    /\ Takes("boundary")
    /\ SetLocals(BoundaryBody(input, Locals))
    /\ UNCHANGED <<input, readErr, pc, stderr, cfg, idx, calls, stdout>>

AppendChar ==
    /\ Takes("append")
    /\ SetLocals(AppendBody(input, Locals))
    /\ UNCHANGED <<input, readErr, pc, stderr, cfg, idx, calls, stdout>>

\* Lines 283-286 and 392-395: ReadRune gave an error, whichever it is; the loop
\* ends, the buffer is flushed and the slice is returned.
FinalFlush ==
    /\ pc = "scan"
    /\ ReadRune(input, pos).err
    /\ SetLocals(FinalBody(Locals))
    /\ pc' = "returned"
    /\ UNCHANGED <<input, readErr, stderr, cfg, idx, calls, stdout>>

\* Lines 53-58 of main: an empty result ends the run, anything else goes on to
\* sql.Open.
NoStatementsMessage == "no SQL statements found in file"

MainAfterSplit ==
    /\ pc = "returned"
    /\ IF Len(statements) = 0
       THEN pc' = "exit" /\ stderr' = NoStatementsMessage
       ELSE pc' = "open" /\ stderr' = stderr
    /\ UNCHANGED <<input, readErr, pos, sb, statements, inSingle, inDouble,
                   inLineComment, inBlockComment, dollarTag, cfg, idx, calls,
                   stdout>>

Next ==
    \/ InLineComment
    \/ InBlockComment
    \/ InDollarQuoted
    \/ OpenLineComment
    \/ OpenBlockComment
    \/ OpenDollarQuoted
    \/ Boundary
    \/ AppendChar
    \/ FinalFlush
    \/ MainAfterSplit

Spec == Init /\ [][Next]_vars

(***************************************************************************)
(* The whole run of main.  The flags give any config of Configs; the file   *)
(* holds any script of MainScripts; every call on the database can fail.    *)
(***************************************************************************)
MaxMainTokens == 3

\* -- and a newline, Select and a semicolon, with, a semicolon, an empty
\* block comment and a dollar-quoted a.
MainVocabulary ==
    { <<DASH, DASH, SPACE, NEWLINE>>,
      <<83, 101, 108, 101, 99, 116, SEMI>>,
      with,
      <<SEMI>>,
      <<SLASH, STAR, STAR, SLASH>>,
      <<DOLLAR, DOLLAR, 97, DOLLAR, DOLLAR>> }

MainScripts ==
    { Flatten(ts) : ts \in UNION { [1..k -> MainVocabulary] : k \in 0..MaxMainTokens } }

\* The flag values: engine absent, oracle, Postgres or mysql; host, dbname and
\* sql path absent or given; port absent (0) or 5433.
Configs ==
    [engine  : {<<>>, oracle, <<80, 111, 115, 116, 103, 114, 101, 115>>,
                <<109, 121, 115, 113, 108>>},
     host    : {<<>>, <<104>>},
     port    : {0, 5433},
     dbname  : {<<>>, <<100>>},
     sqlPath : {<<>>, <<102>>}]

\* Lines 31-39: the flags are parsed, nothing else has happened.
InitMain ==
    /\ cfg \in Configs
    /\ input = <<>>
    /\ readErr = "EOF"
    /\ pos = InitLocals.pos
    /\ sb = InitLocals.sb
    /\ statements = InitLocals.statements
    /\ inSingle = InitLocals.inSingle
    /\ inDouble = InitLocals.inDouble
    /\ inLineComment = InitLocals.inLineComment
    /\ inBlockComment = InitLocals.inBlockComment
    /\ dollarTag = InitLocals.dollarTag
    /\ pc = "validate"
    /\ stderr = ""
    /\ idx = 0
    /\ calls = <<>>
    /\ stdout = <<>>

scanVars == <<pos, sb, statements, inSingle, inDouble, inLineComment,
              inBlockComment, dollarTag, readErr>>

\* Lines 41-44.
Validate ==
    /\ pc = "validate"
    /\ IF validate(cfg) # ""
       THEN stderr' = validate(cfg) /\ pc' = "exit" /\ cfg' = cfg
       ELSE stderr' = stderr /\ pc' = "readFile" /\ cfg' = WithDefaultPort(cfg)
    /\ UNCHANGED <<scanVars, input, idx, calls, stdout>>

\* A variant of ReadFile that takes a failed read for an empty file: the
\* split runs on nothing.
ReadFileTakingFaultAsEmpty ==
    /\ pc = "readFile"
    /\ \E err \in BOOLEAN :
          /\ calls' = Append(calls, Call("ReadFile", 0, err))
          /\ \E script \in MainScripts : input' = IF err THEN <<>> ELSE script
    /\ pc' = "scan"
    /\ stderr' = stderr
    /\ UNCHANGED <<scanVars, cfg, idx, stdout>>

\* Lines 46-52: os.ReadFile fails, or gives the script that line 52 hands to
\* splitSQLStatements.
ReadFile ==
    /\ pc = "readFile"
    /\ \/ /\ calls' = Append(calls, Call("ReadFile", 0, TRUE))
          /\ stderr' = "failed to read SQL file"
          /\ pc' = "exit"
          /\ input' = input
       \/ /\ calls' = Append(calls, Call("ReadFile", 0, FALSE))
          /\ \E script \in MainScripts : input' = script
          /\ pc' = "scan"
          /\ stderr' = stderr
    /\ UNCHANGED <<scanVars, cfg, idx, stdout>>

\* Lines 58-63.
OpenDatabase ==
    /\ pc = "open"
    /\ \E err \in BOOLEAN :
          /\ calls' = Append(calls, Call("Open", 0, err))
          /\ IF err
             THEN stderr' = "failed to open database" /\ pc' = "exit"
             ELSE stderr' = stderr /\ pc' = "ping"
    /\ UNCHANGED <<scanVars, input, cfg, idx, stdout>>

\* Lines 68-71.
Ping ==
    /\ pc = "ping"
    /\ \E err \in BOOLEAN :
          /\ calls' = Append(calls, Call("PingContext", 0, err))
          /\ IF err
             THEN stderr' = "failed to connect" /\ pc' = "exit"
             ELSE stderr' = stderr /\ pc' = "begin"
    /\ UNCHANGED <<scanVars, input, cfg, idx, stdout>>

\* Lines 73-77.
BeginTx ==
    /\ pc = "begin"
    /\ \E err \in BOOLEAN :
          /\ calls' = Append(calls, Call("BeginTx", 0, err))
          /\ IF err
             THEN stderr' = "failed to start transaction" /\ pc' = "exit"
             ELSE stderr' = stderr /\ pc' = "exec"
    /\ UNCHANGED <<scanVars, input, cfg, idx, stdout>>

\* What executeStatement prints for statement index (lines 169-170 and
\* 178-189).  outcome is what the database does: "callErr" fails the
\* QueryContext or ExecContext call, "rowsErr" fails reading the rows (or
\* RowsAffected), "ok" fails nothing.
Printed(index, query, outcome) ==
    IF outcome = "callErr" THEN <<>>
    ELSE IF query
    THEN IF outcome = "rowsErr"
         THEN << <<index, "query header">> >>
         ELSE << <<index, "query header">>, <<index, "table">> >>
    ELSE IF outcome = "rowsErr"
         THEN << <<index, "execution header">>, <<index, "OK">> >>
         ELSE << <<index, "execution header">>, <<index, "Rows affected">> >>

\* executeStatement returns an error (lines 166-168, 170, 174-176).
Fails(query, outcome) == outcome = "callErr" \/ (query /\ outcome = "rowsErr")

\* One iteration of the loop of lines 79-85, executeStatement (lines 158-191)
\* included.
ExecuteStatement ==
    /\ pc = "exec"
    /\ idx < Len(statements)
    /\ \E outcome \in {"ok", "callErr", "rowsErr"} :
          LET index == idx + 1
              statement == statements[index]
              query == IsQueryLike(statement)
              call == Call(IF query THEN "QueryContext" ELSE "ExecContext",
                           index, Fails(query, outcome))
          IN  IF TrimSpace(statement) = <<>>
              THEN /\ idx' = index
                   /\ UNCHANGED <<calls, stdout, stderr, pc>>
              ELSE /\ calls' = AfterStatement(calls, call)
                   /\ stdout' = stdout \o Printed(index, query, outcome)
                   /\ IF call.err
                      THEN stderr' = "statement failed" /\ pc' = "exit" /\ idx' = idx
                      ELSE stderr' = stderr /\ pc' = pc /\ idx' = index
    /\ UNCHANGED <<scanVars, input, cfg>>

\* Lines 87-91: the loop is over, tx.Commit() and the return from main.
Commit ==
    /\ pc = "exec"
    /\ idx = Len(statements)
    /\ \E err \in BOOLEAN :
          /\ calls' = Append(calls, Call("Commit", 0, err))
          /\ IF err
             THEN stderr' = "failed to commit transaction" /\ pc' = "exit"
             ELSE stderr' = stderr /\ pc' = "done"
    /\ UNCHANGED <<scanVars, input, cfg, idx, stdout>>

NextMain ==
    \/ Validate
    \/ ReadFile
    \/ Next
    \/ OpenDatabase
    \/ Ping
    \/ BeginTx
    \/ ExecuteStatement
    \/ Commit

SpecMain == InitMain /\ [][NextMain]_vars

(***************************************************************************)
(* Vocabulary of the properties.                                           *)
(***************************************************************************)
\* The lexer state Normal: no flag set and no dollar tag open.
Normal ==
    /\ ~inSingle /\ ~inDouble /\ ~inLineComment /\ ~inBlockComment
    /\ dollarTag = <<>>

\* This step is an iteration of the scan loop (it consumes input).
Iteration == pc = "scan" /\ pos' > pos

\* The bytes the step consumes, and the byte it reads as ch.
Consumed == SubSeq(input, pos + 1, pos')
ChByte == input[pos + 1]

\* The step emits nothing and appends exactly what it consumes.
AppendsVerbatim == statements' = statements /\ sb' = sb \o Consumed

\* The step emits nothing and appends to the buffer, byte b among the rest.
AppendsByte(b) ==
    /\ statements' = statements
    /\ Len(sb') > Len(sb)
    /\ SubSeq(sb', 1, Len(sb)) = sb
    /\ \E k \in (Len(sb) + 1)..Len(sb') : sb'[k] = b

\* The step is a flush on a `;`: the `;` is dropped, the buffer goes to the
\* output (when not blank) and is emptied.
SplitsHere ==
    /\ sb' = <<>>
    /\ statements' = IF TrimSpace(sb) # <<>> THEN Append(statements, TrimSpace(sb))
                     ELSE statements

\* bs occurs in s at index k.
OccursAt(bs, s, k) == k >= 1 /\ k + Len(bs) - 1 <= Len(s) /\ SubSeq(s, k, k + Len(bs) - 1) = bs

(***************************************************************************)
(* C1.  Every `;` of the script ends the current statement (the buffer is   *)
(* flushed, the `;` is not appended) if and only if the scanner is in       *)
(* Normal state when it reads that `;`; a `;` read in any other state is    *)
(* appended and emits nothing.  A `;` is read either as ch at the top of an *)
(* iteration, in the state the iteration starts in, or inside the loops     *)
(* that read a dollar tag, while dollarTag is set.                          *)
(***************************************************************************)
C1_SemicolonSplitsIffNormal ==
    [][Iteration =>
         /\ (ChByte = SEMI /\ Normal) => (SplitsHere /\ pos' = pos + 1)
         /\ (ChByte = SEMI /\ ~Normal) => (AppendsVerbatim /\ pos' = pos + 1)
         /\ \A i \in (pos + 2)..pos' :
               input[i] = SEMI =>
                  /\ AppendsByte(SEMI)
                  /\ (dollarTag # <<>> \/ dollarTag' # <<>>)
         /\ (statements' # statements \/ sb' = <<>>) => (ChByte = SEMI /\ Normal)
      ]_vars

\* Both cases have happened: a `;` inside a double-quoted literal was kept and a
\* later `;` in Normal state ended the statement.
C1_Witness ==
    /\ pc = "scan"
    /\ input = <<DQUOTE, SEMI, DQUOTE, SEMI, SPACE>>
    /\ pos = 4
    /\ statements = << <<DQUOTE, SEMI, DQUOTE>> >>
    /\ sb = <<>>

(***************************************************************************)
(* C2.  Between an opening quote read in Normal state and the next          *)
(* occurrence of the same quote character no `;` splits: every character    *)
(* read inside the literal is appended, nothing is emitted and the literal  *)
(* stays open; the next same quote closes it and leaves the scanner in      *)
(* Normal state whatever precedes it, a backslash included.                 *)
(***************************************************************************)
C2_QuotedSemicolonNeverSplits ==
    [][Iteration =>
         /\ (Normal /\ ChByte = SQUOTE) => (inSingle' /\ ~inDouble' /\ AppendsVerbatim)
         /\ (Normal /\ ChByte = DQUOTE) => (inDouble' /\ ~inSingle' /\ AppendsVerbatim)
         /\ (inSingle /\ ChByte # SQUOTE) => (inSingle' /\ AppendsVerbatim)
         /\ (inDouble /\ ChByte # DQUOTE) => (inDouble' /\ AppendsVerbatim)
         /\ (inSingle /\ ChByte = SQUOTE) => (Normal' /\ AppendsVerbatim)
         /\ (inDouble /\ ChByte = DQUOTE) => (Normal' /\ AppendsVerbatim)
         /\ (inSingle \/ inDouble) => pos' = pos + Len(EncodeRune(Ch(input, Locals)))
      ]_vars

\* `';\';` is one statement: the `;` in the literal did not split, the quote
\* after the backslash closed the literal and the last `;` ended the statement.
C2_Witness ==
    /\ pc = "returned"
    /\ input = <<SQUOTE, SEMI, 92, SQUOTE, SEMI>>
    /\ statements = << <<SQUOTE, SEMI, 92, SQUOTE>> >>
    /\ ~inSingle

(***************************************************************************)
(* C3.  Whenever the scanner is in Normal state and reads `--`, it enters   *)
(* LineComment whatever follows the two dashes (stated here as: an          *)
(* iteration that starts in Normal state at a `-` followed by a `-` ends    *)
(* in LineComment).  The code asks for a third character, a space or a      *)
(* dash (line 332), so `--a`, `--;`, `--` before a newline and `--` at the  *)
(* end of the script open no comment.                                       *)
(***************************************************************************)
C3_DashDashOpensLineComment ==
    [][(Iteration /\ Normal /\ ChByte = DASH
           /\ pos + 2 <= Len(input) /\ input[pos + 2] = DASH)
         => inLineComment'
      ]_vars

(***************************************************************************)
(* C4.  In Normal state `/*` opens a block comment: both characters are     *)
(* consumed and appended.  Inside the comment every character is appended   *)
(* verbatim and nothing is emitted; the comment closes exactly on the first *)
(* `*` that is read inside it and is followed by `/`, which is consumed     *)
(* with it, and the scanner is then in Normal state.  Since the `*` of the  *)
(* opening marker is consumed by the opening, `/*/` does not close, and     *)
(* since a `/*` inside the comment is only appended, comments do not nest.  *)
(***************************************************************************)
C4_BlockComment ==
    [][Iteration =>
         /\ (Normal /\ OccursAt(<<SLASH, STAR>>, input, pos + 1))
               => (inBlockComment' /\ AppendsVerbatim /\ Consumed = <<SLASH, STAR>>)
         /\ (inBlockComment /\ OccursAt(<<STAR, SLASH>>, input, pos + 1))
               => (Normal' /\ AppendsVerbatim /\ Consumed = <<STAR, SLASH>>)
         /\ (inBlockComment /\ ~OccursAt(<<STAR, SLASH>>, input, pos + 1))
               => (/\ inBlockComment' /\ AppendsVerbatim
                   /\ Consumed = EncodeRune(Ch(input, Locals))
                   /\ ~inSingle' /\ ~inDouble' /\ ~inLineComment' /\ dollarTag' = <<>>)
      ]_vars

\* `/*/;*/;` upto its closing: the `/` after the marker did not close the
\* comment, the `;` inside it did not split, `*/` closed it.
C4_Witness ==
    /\ pc = "scan"
    /\ Normal
    /\ pos = 6
    /\ sb = <<SLASH, STAR, SLASH, SEMI, STAR, SLASH>>
    /\ statements = <<>>

(***************************************************************************)
(* C5.  Once a dollar tag T has been opened from Normal state (T is the     *)
(* text of the script at the `$`), nothing is emitted until T occurs again: *)
(* while the tag is open every iteration appends and emits nothing,         *)
(* whatever it reads (`;`, newlines, quotes, comment markers), and the tag  *)
(* stays open unless the iteration starts at an occurrence of T.            *)
(***************************************************************************)
C5_DollarBodyNeverSplits ==
    [][Iteration =>
         /\ (Normal /\ dollarTag' # <<>>)
               => (/\ OccursAt(dollarTag', input, pos + 1)
                   /\ statements' = statements
                   /\ HasPrefix(sb', sb \o dollarTag'))
         /\ dollarTag # <<>>
               => (/\ statements' = statements
                   /\ HasPrefix(sb', sb \o <<ChByte>>)
                   /\ ~inSingle' /\ ~inDouble' /\ ~inLineComment' /\ ~inBlockComment'
                   /\ dollarTag' \in {dollarTag, <<>>}
                   /\ (dollarTag' = <<>> => OccursAt(dollarTag, input, pos + 1)))
      ]_vars

\* A body of several lines with a quote, a `;` and a comment marker in it,
\* closed by its tag: one statement.
C5_Witness ==
    /\ pc = "returned"
    /\ input = <<DOLLAR, DOLLAR, SQUOTE, SEMI, NEWLINE, DOLLAR, DOLLAR>>
    /\ statements = << <<DOLLAR, DOLLAR, SQUOTE, SEMI, NEWLINE, DOLLAR, DOLLAR>> >>
    /\ Normal

\* Every character of bs is a white-space character.
Blank(bs) == \A i \in 1..Len(bs) : RuneStart(bs, i) => IsSpace(DecodeRune(bs, i).r)

\* The step is the end of the scan: ReadRune failed and the final flush ran.
EndOfScan == pc = "scan" /\ pc' = "returned"

(***************************************************************************)
(* C6.  When the input ends in a state other than Normal, no error is       *)
(* raised: the scan returns, the buffered text, trimmed, becomes the last   *)
(* statement (the buffer then holds at least the opening character of the   *)
(* unterminated construct, so it is never blank) and the statements emitted *)
(* before are kept as they were.                                            *)
(***************************************************************************)
C6_UnterminatedTailIsFlushed ==
    [][(pc = "scan" /\ pos >= Len(input) /\ ~Normal) =>
         /\ pc' = "returned"
         /\ stderr' = ""
         /\ ~Blank(sb)
         /\ statements' = Append(statements, TrimSpace(sb))
         /\ Len(TrimSpace(sb)) > 0
      ]_vars

\* `a;/*a`: the unterminated comment is the second statement.
C6_Witness ==
    /\ pc = "returned"
    /\ inBlockComment
    /\ input = <<97, SEMI, SLASH, STAR, 97>>
    /\ statements = << <<97>>, <<SLASH, STAR, 97>> >>

\* s is not empty and neither starts nor ends with a white-space character.
TrimmedNonEmpty(s) ==
    /\ Len(s) > 0
    /\ ~IsSpace(DecodeRune(s, 1).r)
    /\ ~IsSpace(LastRune(s).r)

OutputIsTrimmed == \A i \in 1..Len(statements) : TrimmedNonEmpty(statements[i])

\* The step is a flush on a `;`: a `;` read in Normal state.
FlushOnSemicolon == Iteration /\ Normal /\ ChByte = SEMI

\* A flush of a blank buffer, on a `;` or at the end of the scan, emits nothing.
BlankAddsNothing == ((FlushOnSemicolon \/ EndOfScan) /\ Blank(sb)) => statements' = statements

C8_Idempotent ==
    pc = "returned" =>
        \A i \in 1..Len(statements) :
            splitSQLStatements(statements[i]) = <<statements[i]>>

\* The same, for the scripts of ASCII characters only.
C8_IdempotentAscii ==
    (pc = "returned" /\ \A k \in 1..Len(input) : input[k] < 128) =>
        \A i \in 1..Len(statements) :
            splitSQLStatements(statements[i]) = <<statements[i]>>

\* The script has no quote character, no `$`, no `--` and no `/*`.
Plain(in) ==
    /\ \A i \in 1..Len(in) : in[i] \notin {SQUOTE, DQUOTE, DOLLAR}
    /\ \A i \in 1..Len(in) :
          ~OccursAt(<<DASH, DASH>>, in, i) /\ ~OccursAt(<<SLASH, STAR>>, in, i)

\* The segment of in that follows index i (0: the first segment).
SegmentAfter(in, i) ==
    LET later == {j \in (i + 1)..Len(in) : in[j] = SEMI}
        stop  == IF later = {} THEN Len(in) + 1
                 ELSE CHOOSE j \in later : \A k \in later : j <= k
    IN  SubSeq(in, i + 1, stop - 1)

\* The number of `;` whose following segment is not blank.
SemicolonsBeforeText(in) ==
    Cardinality({i \in 1..Len(in) : in[i] = SEMI /\ ~Blank(SegmentAfter(in, i))})

(***************************************************************************)
(* C9.  For a script with no quote character, no `$`, no `--` and no `/*`,  *)
(* the number of statements is the number of `;` whose following segment    *)
(* (the text up to the next `;` or the end of the script) is not blank,     *)
(* plus one when the segment before the first `;` is not blank.             *)
(***************************************************************************)
C9_StatementCount ==
    (pc = "returned" /\ Plain(input)) =>
        Len(statements) = SemicolonsBeforeText(input)
                          + (IF Blank(SegmentAfter(input, 0)) THEN 0 ELSE 1)

\* The claim as stated: the count is the number of `;` followed by text.
C9_CountIsSemicolonsBeforeText ==
    (pc = "returned" /\ Plain(input)) =>
        Len(statements) = SemicolonsBeforeText(input)

\* `a; ;a`: two statements, one `;` followed by text.
C9_Witness ==
    /\ pc = "returned"
    /\ input = <<97, SEMI, SPACE, SEMI, 97>>
    /\ Plain(input)
    /\ SemicolonsBeforeText(input) = 1
    /\ Len(statements) = 2

\* os.ReadFile has failed: the read of the character source met a fault.
ReadFault == \E i \in 1..Len(calls) : calls[i].op = "ReadFile" /\ calls[i].err

\* What line 48 writes (without the error's text).
ReadFileMessage == "failed to read SQL file"

Positions(ops) == {i \in 1..Len(calls) : calls[i].op \in ops}
StatementCalls == Positions({"QueryContext", "ExecContext"})
Commits == Positions({"Commit"})
Rollbacks == Positions({"Rollback"})
Begun == \E b \in Positions({"BeginTx"}) : ~calls[b].err
Ended == pc \in {"done", "exit"}

(***************************************************************************)
(* C11.  The batch is atomic and sequential.  There is one transaction, and *)
(* every statement call, commit and rollback comes after its successful     *)
(* begin.  The k-th statement call executes statement k of the output, so   *)
(* the statements go one at a time in output order.  A statement that fails *)
(* is followed at once by the rollback, which is the last call of the run,  *)
(* and the run ends with os.Exit(1): no later statement, no commit.  A      *)
(* rollback only ever follows a failed statement.  A commit is the last     *)
(* call and comes when every statement of the output has been executed      *)
(* without error.  A run that began a transaction and has ended issued      *)
(* exactly one of commit and rollback.                                      *)
(***************************************************************************)
C11_AtomicSequentialBatch ==
    /\ Cardinality(Positions({"BeginTx"})) <= 1
    /\ \A i \in StatementCalls \cup Commits \cup Rollbacks :
          \E b \in Positions({"BeginTx"}) : b < i /\ ~calls[b].err
    /\ \A i \in StatementCalls :
          /\ calls[i].stmt = Cardinality({j \in StatementCalls : j <= i})
          /\ calls[i].stmt <= Len(statements)
          /\ calls[i].err =>
                /\ i + 1 \in Rollbacks
                /\ Len(calls) = i + 1
                /\ pc = "exit"
    /\ \A i \in Rollbacks : i - 1 \in StatementCalls /\ calls[i - 1].err
    /\ \A i \in Commits :
          /\ i = Len(calls)
          /\ Cardinality(StatementCalls) = Len(statements)
          /\ \A j \in StatementCalls : ~calls[j].err
    /\ Cardinality(Commits \cup Rollbacks) <= 1
    /\ (Begun /\ Ended) => Cardinality(Commits \cup Rollbacks) = 1

\* The script Select;Select;with: the first statement succeeded, the second
\* failed and was rolled back, the third was never executed.
C11_Witness ==
    /\ pc = "exit"
    /\ Len(statements) = 3
    /\ Len(calls) = 7
    /\ calls[5] = Call("QueryContext", 1, FALSE)
    /\ calls[6] = Call("QueryContext", 2, TRUE)
    /\ calls[7] = Call("Rollback", 0, FALSE)

\* A required flag is absent, or the engine is none of the three in any
\* letter case.
MissingOrUnsupported ==
    \/ cfg.engine = <<>>
    \/ cfg.host = <<>>
    \/ cfg.dbname = <<>>
    \/ cfg.sqlPath = <<>>
    \/ ToLower(cfg.engine) \notin {oracle, sqlserver, postgres}

(***************************************************************************)
(* C12.  With a required field (engine, host, dbname, sql path) missing or  *)
(* an engine other than oracle, sqlserver and postgres the run makes no     *)
(* call at all on the file system or the database (the file is not read, no *)
(* connection is opened, no transaction is begun): it goes from validate    *)
(* straight to os.Exit(1) with a message on stderr.                         *)
(***************************************************************************)
C12_RejectedBeforeAnyIO ==
    MissingOrUnsupported =>
        /\ calls = <<>>
        /\ pc \in {"validate", "exit"}
        /\ pc = "exit" => stderr # ""

\* Engine and host are given and dbname is not: the run has ended on
\* "dbname is required".
C12_Witness ==
    /\ pc = "exit"
    /\ cfg.engine = oracle
    /\ cfg.host # <<>>
    /\ cfg.dbname = <<>>
    /\ stderr = "dbname is required"
    /\ calls = <<>>

\* The first place at or after k where bs occurs in s, 0 when there is none.
RECURSIVE FirstOccurrence(_, _, _)
FirstOccurrence(bs, s, k) ==
    IF k + Len(bs) - 1 > Len(s) THEN 0
    ELSE IF OccursAt(bs, s, k) THEN k
    ELSE FirstOccurrence(bs, s, k + 1)

\* The statements occur in s from place k on, one after the other in their
\* order and without overlap.
RECURSIVE FitsInOrder(_, _, _)
FitsInOrder(stmts, s, k) ==
    \/ stmts = <<>>
    \/ LET f == FirstOccurrence(Head(stmts), s, k)
       IN  f # 0 /\ FitsInOrder(Tail(stmts), s, f + Len(Head(stmts)))

\* The buffer without the NUL bytes a failed read wrote into it (the scripts
\* hold no NUL byte of their own), and the place in the script where the
\* text of the buffer begins.
StripNul(bs) == SelectSeq(bs, LAMBDA b : b # NUL)
BufferStart == pos - Len(StripNul(sb))

\* The buffer holds the text of the script from BufferStart to the read
\* position, and every statement emitted so far lies, in output order, in the
\* text before BufferStart.
EmittedLieBeforeBuffer ==
    /\ BufferStart >= 0
    /\ StripNul(sb) = SubSeq(input, BufferStart + 1, pos)
    /\ FitsInOrder(statements, SubSeq(input, 1, BufferStart), 1)

(***************************************************************************)
(* C13.  The output keeps the textual order.  A step of the scan leaves the *)
(* output as it is or appends the trimmed buffer to it, so earlier elements *)
(* are never changed or removed; when it appends, the buffer is the text of *)
(* the script from the end of the previous statement's segment up to the    *)
(* read position and the statements emitted before lie in the script one    *)
(* after the other, in output order, all of them before that text; and the  *)
(* sequence the scan returns is the one another split of the same input     *)
(* gives.                                                                   *)
(***************************************************************************)
C13_OutputKeepsTextualOrder ==
    [][ pc = "scan" =>
          /\ \/ statements' = statements
             \/ /\ statements' = Append(statements, TrimSpace(sb))
                /\ EmittedLieBeforeBuffer
          /\ EndOfScan => statements' = splitSQLStatements(input)
      ]_vars

\* The script a;aa has been split into a and aa.
C13_Witness ==
    /\ pc = "returned"
    /\ input = <<97, SEMI, 97, 97>>
    /\ statements = << <<97>>, <<97, 97>> >>

\* The index of the first byte at or after i that follows a newline, or the
\* end of s; and of the first byte after the next */, or the end of s.
RECURSIVE AfterNewline(_, _)
AfterNewline(s, i) ==
    IF i > Len(s) THEN i
    ELSE IF s[i] = NEWLINE THEN i + 1
    ELSE AfterNewline(s, i + 1)

RECURSIVE AfterBlockEnd(_, _)
AfterBlockEnd(s, i) ==
    IF i > Len(s) THEN i
    ELSE IF OccursAt(<<STAR, SLASH>>, s, i) THEN i + 2
    ELSE AfterBlockEnd(s, i + 1)

\* Where the SQL of a statement begins: after the white space, the -- line
\* comments and the block comments at its head.
RECURSIVE SqlStart(_, _)
SqlStart(s, i) ==
    IF i > Len(s) THEN i
    ELSE IF s[i] \in {TAB, NEWLINE, 13, SPACE} THEN SqlStart(s, i + 1)
    ELSE IF OccursAt(<<DASH, DASH>>, s, i) THEN SqlStart(s, AfterNewline(s, i + 2))
    ELSE IF OccursAt(<<SLASH, STAR>>, s, i) THEN SqlStart(s, AfterBlockEnd(s, i + 2))
    ELSE i

\* The statement is a select or with query, whatever comments precede it.
IsSelectOrWithQuery(s) ==
    LET sql == ToLower(SubSeq(s, SqlStart(s, 1), Len(s)))
    IN  HasPrefix(sql, select) \/ HasPrefix(sql, with)

(***************************************************************************)
(* C14.  Every statement of the output that is a select or with query, a    *)
(* comment at its head or not, is sent to the database as a query, and when *)
(* it succeeds its rows are printed as a table.                             *)
(***************************************************************************)
C14_EveryQueryIsPrinted ==
    \A i \in StatementCalls :
        IsSelectOrWithQuery(statements[calls[i].stmt]) =>
            /\ calls[i].op = "QueryContext"
            /\ ~calls[i].err =>
                  \E k \in 1..Len(stdout) : stdout[k] = <<calls[i].stmt, "table">>

\* How many of the five state holders are set.
FlagsSet ==
    Cardinality({f \in {"inSingle", "inDouble", "inLineComment", "inBlockComment",
                        "dollarTag"} :
        \/ f = "inSingle" /\ inSingle
        \/ f = "inDouble" /\ inDouble
        \/ f = "inLineComment" /\ inLineComment
        \/ f = "inBlockComment" /\ inBlockComment
        \/ f = "dollarTag" /\ dollarTag # <<>>})

(***************************************************************************)
(* C15.  At the start of every iteration of the scan loop, and after it, at *)
(* most one of inSingle, inDouble, inLineComment, inBlockComment and        *)
(* dollarTag != "" holds; and an iteration that flushes a statement starts  *)
(* and ends with all of them clear.                                         *)
(***************************************************************************)
C15_AtMostOneFlag ==
    [][ Iteration =>
          /\ FlagsSet <= 1
          /\ FlagsSet' <= 1
          /\ statements' # statements => (FlagsSet = 0 /\ FlagsSet' = 0 /\ ChByte = SEMI)
      ]_vars

\* A ' read inside a double-quoted identifier: inDouble alone is set.
C15_Witness ==
    /\ pc = "scan"
    /\ sb = <<DQUOTE, SQUOTE>>
    /\ inDouble
    /\ FlagsSet = 1

\* The tag a `$` at byte pos + 1 opens when the window is PeekWindow
\* characters: the text from that `$` through the next `$`, when no space,
\* tab or newline comes before it and it is one of the PeekWindow characters
\* after the first `$`; <<>> when there is no such `$`.
TagInCharacterWindow ==
    LET stops == {i \in (pos + 2)..Len(input) : input[i] \in {DOLLAR, SPACE, TAB, NEWLINE}}
        stop == CHOOSE i \in stops : \A k \in stops : i <= k
        characters == Cardinality({i \in (pos + 2)..stop : RuneStart(input, i)})
    IN  IF stops = {} THEN <<>>
        ELSE IF input[stop] = DOLLAR /\ characters <= PeekWindow
        THEN SubSeq(input, pos + 1, stop)
        ELSE <<>>

\* This step reads a `$` in Normal state.
DollarInNormal == Iteration /\ Normal /\ ChByte = DOLLAR

(***************************************************************************)
(* C16.  A `$` read in Normal state opens a dollar-quoted body if and only  *)
(* if a second `$` comes within the next 64 characters with no space, tab   *)
(* or newline before it.  When it does, the tag is the text of the script   *)
(* from the first `$` through the second and the whole tag is appended to   *)
(* the buffer; when it does not, the step appends the `$`, consumes nothing *)
(* else, emits nothing and leaves the state Normal.                         *)
(***************************************************************************)
C16_DollarTagDetection ==
    [][ DollarInNormal =>
          IF TagInCharacterWindow # <<>>
          THEN /\ dollarTag' = TagInCharacterWindow
               /\ HasPrefix(sb', sb \o TagInCharacterWindow)
               /\ statements' = statements
          ELSE /\ Normal'
               /\ Consumed = <<DOLLAR>>
               /\ AppendsVerbatim
      ]_vars

\* This step reads a character inside a dollar-quoted body.
InDollarBody == Iteration /\ dollarTag # <<>>

\* The open tag stands in the script at the read position: the `$` about to
\* be read and the characters after it are the whole tag.
TagIsNext == OccursAt(dollarTag, input, pos + 1)

\* A `$` in the body closes it if and only if the whole tag stands there, and
\* a `$` that does not is appended alone with nothing consumed after it.
ClosesOnWholeTagOnly ==
    InDollarBody =>
        /\ dollarTag' = <<>> <=> TagIsNext
        /\ (ChByte = DOLLAR /\ ~TagIsNext) =>
              /\ Consumed = <<DOLLAR>>
              /\ AppendsVerbatim
              /\ dollarTag' = dollarTag

\* No occurrence of the tag that begins after the opening tag is passed
\* over: none begins in what the opening step consumes beyond the tag, and
\* none begins in what a step of the body consumes without closing.
NoOccurrencePassedOver ==
    /\ (Iteration /\ Normal /\ dollarTag' # <<>>) =>
          \A k \in (pos + Len(dollarTag') + 1)..pos' : ~OccursAt(dollarTag', input, k)
    /\ (InDollarBody /\ dollarTag' # <<>>) =>
          \A k \in (pos + 1)..pos' : ~OccursAt(dollarTag, input, k)

(***************************************************************************)
(* C17.  In DollarQuoted(tag) a `$` closes the body if and only if it and   *)
(* the characters after it are the whole tag, byte for byte; a `$` that     *)
(* does not match is appended alone, the lookahead is not consumed and the  *)
(* state stays DollarQuoted(tag).  So the body closes exactly at the first  *)
(* occurrence of the tag that begins after the opening tag ends: the scan   *)
(* passes over no such occurrence.                                          *)
(***************************************************************************)
C17_ClosesAtFirstOccurrence ==
    [][ ClosesOnWholeTagOnly /\ NoOccurrencePassedOver ]_vars

(***************************************************************************)
(* C18.  Opening and closing a dollar tag consume the characters of the tag *)
(* and nothing after it, whatever the tag: the step that opens a body       *)
(* consumes and appends exactly the new tag, and the step that closes it    *)
(* consumes and appends exactly the open tag and ends in Normal state, so   *)
(* the character after the tag is the next one scanned.                     *)
(***************************************************************************)
C18_TagConsumedExactly ==
    [][ /\ (Iteration /\ Normal /\ dollarTag' # <<>>) =>
              /\ Consumed = dollarTag'
              /\ AppendsVerbatim
        /\ (InDollarBody /\ dollarTag' = <<>>) =>
              /\ Consumed = dollarTag
              /\ AppendsVerbatim
              /\ Normal'
      ]_vars

\* The reference scanner.  It is the scanner above in everything but the
\* quotes: inside a literal a quote that is followed by the same quote is an
\* escaped quote, both are consumed and the literal stays open; any other
\* quote opens or closes a literal.
RefQuoteBody(in, st) ==
    LET ch == Ch(in, st)
        doubled == \/ st.inSingle /\ ch = SQUOTE /\ HasPrefix(NextN(in, st, 1), <<SQUOTE>>)
                   \/ st.inDouble /\ ch = DQUOTE /\ HasPrefix(NextN(in, st, 1), <<DQUOTE>>)
    IN  IF doubled
        THEN [st EXCEPT !.pos = AfterCh(in, st) + 1,
                        !.sb = WriteRune(WriteRune(st.sb, ch), ch)]
        ELSE [st EXCEPT !.pos = AfterCh(in, st),
                        !.sb = WriteRune(st.sb, ch),
                        !.inSingle = IF ch = SQUOTE /\ ~st.inDouble
                                     THEN ~st.inSingle ELSE st.inSingle,
                        !.inDouble = IF ch = DQUOTE /\ ~st.inSingle
                                     THEN ~st.inDouble ELSE st.inDouble]

RefIterate(in, st) ==
    LET ch == Ch(in, st)
        normalOrQuoted == ~st.inLineComment /\ ~st.inBlockComment /\ st.dollarTag = <<>>
    IN  IF normalOrQuoted /\ ch \in {SQUOTE, DQUOTE}
        THEN RefQuoteBody(in, st)
        ELSE Iterate(in, st)

RECURSIVE RefScan(_, _)
RefScan(in, st) ==
    IF ReadRune(in, st.pos).err THEN [st EXCEPT !.statements = Flush(st.statements, st.sb)]
    ELSE RefScan(in, RefIterate(in, st))

RefSplit(in) == RefScan(in, InitLocals).statements

(***************************************************************************)
(* C19.  Doubled quotes need no special case: for every script the scan     *)
(* returns the statements of the reference scanner, which keeps a literal   *)
(* open over '' (and over "" in a double-quoted one).                       *)
(***************************************************************************)
C19_DoubledQuotesAsReference ==
    pc = "returned" => statements = RefSplit(input)

\* The script ''';' : the literal holds an escaped quote and a semicolon, and
\* the script is one statement.
C19_Witness ==
    /\ pc = "returned"
    /\ input = <<SQUOTE, SQUOTE, SQUOTE, SEMI, SQUOTE>>
    /\ statements = <<input>>
    /\ RefSplit(input) = <<input>>

\* The five state holders.
Holders == <<inSingle, inDouble, inLineComment, inBlockComment, dollarTag>>

\* The terminator of the state the scan is in stands at the read position:
\* the matching quote, the newline, */ or the whole tag.
OwnTerminatorIsNext ==
    \/ inSingle /\ ChByte = SQUOTE
    \/ inDouble /\ ChByte = DQUOTE
    \/ inLineComment /\ ChByte = NEWLINE
    \/ inBlockComment /\ OccursAt(<<STAR, SLASH>>, input, pos + 1)
    \/ dollarTag # <<>> /\ OccursAt(dollarTag, input, pos + 1)

(***************************************************************************)
(* C20.  The state entered first owns the scan until its own closing        *)
(* condition.  An iteration that starts in a literal, a comment or a        *)
(* dollar-quoted body emits nothing; it ends in Normal state when the       *)
(* state's own terminator (the matching quote, the newline, */, the exact   *)
(* tag) stands at the read position, and otherwise, whatever it reads (the  *)
(* other quote, --, /*, `$`, another tag) it leaves all five state holders  *)
(* as they are.                                                             *)
(***************************************************************************)
C20_FirstStateOwnsTheScan ==
    [][ (Iteration /\ ~Normal) =>
          /\ statements' = statements
          /\ IF OwnTerminatorIsNext THEN Normal' ELSE Holders' = Holders
      ]_vars

\* The body opened by `$a$` has taken in `-- ` and `/*`: the tag alone is set.
C20_Witness ==
    /\ pc = "scan"
    /\ sb = <<DOLLAR, 97, DOLLAR, DASH, DASH, SPACE, SLASH, STAR>>
    /\ dollarTag = <<DOLLAR, 97, DOLLAR>>
    /\ ~inLineComment /\ ~inBlockComment /\ ~inSingle /\ ~inDouble

\* The pieces of in that follow index i, in order: in is cut at every `;`
\* after i, and the `;` belong to no piece.
RECURSIVE CutAt(_, _)
CutAt(in, i) ==
    LET piece == SegmentAfter(in, i)
        stop  == i + Len(piece) + 1
    IN  IF stop > Len(in) THEN <<piece>> ELSE <<piece>> \o CutAt(in, stop)

\* Each element of pieces trimmed.
Trimmed(pieces) == [k \in 1..Len(pieces) |-> TrimSpace(pieces[k])]

\* The reference result: cut at every `;`, trim each piece, drop the empty
\* pieces, keep the order.
CutTrimDrop(in) == SelectSeq(Trimmed(CutAt(in, 0)), LAMBDA piece : piece # <<>>)

(***************************************************************************)
(* C21.  For every script with no ', no ", no `$`, no `--` and no `/*`,     *)
(* splitSQLStatements returns exactly the reference result: the script cut  *)
(* at every `;`, each piece trimmed, the empty pieces dropped, the order    *)
(* kept.                                                                    *)
(***************************************************************************)
C21_PlainScriptIsCutAtSemicolons ==
    (pc = "returned" /\ Plain(input)) => statements = CutTrimDrop(input)

\* U+00E9, space, `;`, `;`, U+00E9: the first piece was trimmed, the empty
\* piece between the two `;` was dropped and the tail with no `;` was kept.
C21_Witness ==
    /\ pc = "returned"
    /\ input = <<195, 169, SPACE, SEMI, SEMI, 195, 169>>
    /\ Plain(input)
    /\ CutAt(input, 0) = << <<195, 169, SPACE>>, <<>>, <<195, 169>> >>
    /\ statements = << <<195, 169>>, <<195, 169>> >>

(***************************************************************************)
(* The scan as a run that goes on: splitSQLStatements is one goroutine      *)
(* whose loop has no blocking call (the source is a string in memory), so   *)
(* a step that can be taken is taken.                                       *)
(***************************************************************************)
\* The branches the loop body has; an iteration takes one of them.
BranchNames ==
    {"lineComment", "blockComment", "dollarBody", "openLineComment",
     "openBlockComment", "openDollar", "boundary", "append"}

\* While the scan runs a step of it can be taken: ReadRune fails and the loop
\* is left, or it gives a rune and the body takes one of its branches.
LoopCanStep == ReadRune(input, pos).err \/ Branch(input, Locals) \in BranchNames

\* Weak fairness of the scan's steps, WF_vars(Next) while pc = "scan", with
\* ENABLED <<Next>>_vars written as what it is there, TRUE (LoopCanStep): the
\* scan does not stay in the loop for ever without taking a step.
LoopKeepsRunning == []<>(pc # "scan") \/ []<><<Next>>_vars

SpecLive == Init /\ [][Next]_vars /\ LoopKeepsRunning /\ WF_vars(MainAfterSplit)

\* The step leaves the lexer state as it was.
SameLexerState ==
    UNCHANGED <<inSingle, inDouble, inLineComment, inBlockComment, dollarTag>>

\* The step consumes ch and nothing else.
ConsumesChOnly == pos' = pos + DecodeRune(input, pos + 1).size

\* An iteration consumes at least ch, and never more than the input holds.
ConsumesForward == pos' > pos /\ pos' >= pos + DecodeRune(input, pos + 1).size /\ pos' <= Len(input)

\* An iteration that looked ahead and found no marker and no tag (the lexer
\* state stays as it was) consumed only ch; what it peeked at is still to be
\* read.  Only a step that opens or closes a comment or a dollar body reads
\* further than ch.
PeekConsumesNothing == SameLexerState => ConsumesChOnly

\* Once the scan has returned it is not entered again and its locals stay.
ScanIsOver == pc # "scan" => (pc' # "scan" /\ UNCHANGED <<pos, sb, statements>>)

\* The loop ends only when the whole input was consumed, by the final flush,
\* with nothing reported.
EndsAtEndOfInput ==
    EndOfScan => /\ pos = Len(input)
                 /\ pos' = pos
                 /\ statements' = Flush(statements, sb)
                 /\ stderr' = ""

(***************************************************************************)
(* C22.  The split is a single left-to-right pass that always terminates    *)
(* without raising: every iteration of the loop consumes at least one       *)
(* character and the reader offset only grows, so no character is consumed  *)
(* twice; looking ahead consumes nothing; the loop is left only at the end  *)
(* of the input, by the final flush, which happens once (the scan is not    *)
(* entered again); and for every script the scan does return.               *)
(***************************************************************************)
C22_SinglePassTerminates ==
    /\ [][/\ (pc = "scan" /\ pc' = "scan") => (ConsumesForward /\ PeekConsumesNothing)
          /\ pc = "scan" => pc' \in {"scan", "returned"}
          /\ EndsAtEndOfInput
          /\ ScanIsOver
         ]_vars
    /\ [](pc = "scan" => LoopCanStep)
    /\ (pc = "scan") ~> (pc = "returned")

\* `$a ;a` scanned to its end: at the `$` the scanner looked ahead over `a ;a`
\* and found no tag, and the characters it had looked at were then read one by
\* one, the `;` among them as a boundary.
C22_Witness ==
    /\ pc = "returned"
    /\ input = <<DOLLAR, 97, SPACE, SEMI, 97>>
    /\ pos = Len(input)
    /\ statements = << <<DOLLAR, 97>>, <<97>> >>

\* The place in the script where the text of the buffer would begin if the
\* buffer held nothing but consumed characters.
BufferBegin == pos - Len(sb)

\* The buffer is the text of the script from the last boundary `;` (or from
\* the start of the script) up to the read position.
BufferIsConsumedText ==
    /\ BufferBegin >= 0
    /\ sb = SubSeq(input, BufferBegin + 1, pos)
    /\ BufferBegin > 0 => input[BufferBegin] = SEMI

\* Every emitted statement occurs in the script as it is.
Substrings(stmts) ==
    \A i \in 1..Len(stmts) : \E k \in 1..Len(input) : OccursAt(stmts[i], input, k)

\* A step of the scan only deletes: an iteration appends exactly what it
\* consumed, or it consumed a boundary `;` and flushed; the final flush emits
\* the trimmed buffer; and the buffer and the output hold text of the script.
OnlyDeletes ==
    /\ Iteration => \/ AppendsVerbatim
                    \/ (Normal /\ Consumed = <<SEMI>> /\ SplitsHere)
    /\ EndOfScan => statements' = Flush(statements, sb)
    /\ BufferIsConsumedText
    /\ Substrings(statements')

(***************************************************************************)
(* C23.  The splitter only deletes: every character appended to the buffer  *)
(* is a character consumed from the input, in place and unaltered, also     *)
(* when the input ends inside or right after a dollar tag; every emitted    *)
(* statement is a contiguous substring of the script; and what the output   *)
(* lacks of the script is the boundary `;` and the white space that the     *)
(* flushes trim.                                                            *)
(***************************************************************************)
C23_SplitterOnlyDeletes == [][pc = "scan" => OnlyDeletes]_vars

\* The same, for the scripts of ASCII characters only.
C23_OnlyDeletesAscii ==
    [][(pc = "scan" /\ \A k \in 1..Len(input) : input[k] < 128) => OnlyDeletes]_vars

====
